---- MODULE Spec2Model ----
(***************************************************************************)
(* Session orchestration engine of the chess server (src/server.js):      *)
(* player registry, mode queues, Match state machine with its clock, and  *)
(* the settlement performed by handleGameOver against the relational      *)
(* store declared in src/db.js.                                           *)
(*                                                                         *)
(* Money is counted in paise (1/100 rupee), the grain of the              *)
(* DECIMAL(10, 2) columns.  Every `await pool.query(...)` is a suspension *)
(* point: a handler is cut into one step per await, and the step that     *)
(* resumes a handler applies the awaited statement and runs the handler   *)
(* up to its next await.                                                  *)
(***************************************************************************)
EXTENDS Integers, Sequences, FiniteSets, Bags, TLC

\* ---------------------------------------------------------------- bounds
MaxTicks == 3
TickMs == 30000
MaxPlies == 2
MaxTasks == 2
NumPlayerIds == 2
NumMatchIds == 2
MaxFailures == 1

\* ------------------------------------------------------- value universes
Null == "null"
Undefined == "undefined"
Sockets == {"s1", "s2"}
Users == {"u1", "u2"}
Modes == {"BULLET", "BLITZ"}
FeeInputs == {0, 2001}
PlayerIds == 1..NumPlayerIds
MatchIds == 1..NumMatchIds

\* ------------------------------------------------------ program constants
DefaultFee == 1000
RatingStep == 10
BulletMs == 60000
BlitzMs == 180000
RapidMs == 300000
ClassicalMs == 600000

VARIABLES
  players,    \* Map socketId -> Player
  queues,     \* mode -> array of playerId
  matches,    \* keys of the Map matchId -> Match
  matchObj,   \* the Match objects reachable from the Map or from a handler
  tasks,      \* handlers suspended on an await
  closed,     \* sockets whose disconnect event was processed
  now,        \* Date.now()
  wallet,     \* users.wallet_balance, in paise
  stats,      \* users.rating / wins / losses / draws
  inserted,   \* rows written to the append-only tables by the last step
  emitted,    \* events pushed to sockets by the last step
  logged,     \* console lines written by the last step
  settles,    \* number of handleGameOver calls made for each Match object
  created,    \* number of Match objects constructed so far (uuidv4 is fresh)
  failures    \* number of store statements that have failed so far

vars == <<players, queues, matches, matchObj, tasks, closed, now, wallet,
          stats, inserted, emitted, logged, settles, created, failures>>

\* ----------------------------------------------------------------- helpers
Range(f) == {f[x] : x \in DOMAIN f}

Min(S) == CHOOSE x \in S : \A y \in S : x <= y

\* Math.max(0, x) left out
Unclamped(a, b) == b

Max0(a, b) == IF a >= b THEN a ELSE b

IndexOf(q, x) ==
  IF \E i \in 1..Len(q) : q[i] = x
  THEN Min({i \in 1..Len(q) : q[i] = x})
  ELSE 0

Splice(q, i) == SubSeq(q, 1, i - 1) \o SubSeq(q, i + 1, Len(q))

RemoveFromQueue(q, x) == IF IndexOf(q, x) > 0 THEN Splice(q, IndexOf(q, x)) ELSE q

\* join_queue without the loop of lines 711-718
RemoveFromNoQueue(qs, x) == qs

RemoveFromAllQueues(qs, x) == [m \in DOMAIN qs |-> RemoveFromQueue(qs[m], x)]

Other(c) == IF c = "white" THEN "black" ELSE "white"

\* rounding of a non-negative amount num/den paise to whole paise, as the
\* store does when it assigns to a DECIMAL(10, 2) column
RoundCents(num, den) == (2 * num + den) \div (2 * den)

NoResult == [winner |-> Null, reason |-> Null]

Msg(to, event, mid, winner, reason, amount) ==
  [to |-> to, event |-> event, mid |-> mid, winner |-> winner,
   reason |-> reason, amount |-> amount]

\* a console line; size is the queue length line 726 prints, 0 on the others
Log(line, who, mode) == [line |-> line, who |-> who, mode |-> mode, size |-> 0]

\* line 726
JoinedLine(dbId, mode, size) ==
  [line |-> "joined", who |-> dbId, mode |-> mode, size |-> size]

Row(table, user, mid, amount, type) ==
  [table |-> table, user |-> user, mid |-> mid, amount |-> amount, type |-> type]

\* class Player; color, gameMode and username are written and never read
\* back by the engine, so they are carried by the events that publish them
Player(playerId, socketId, dbId) ==
  [playerId |-> playerId, socketId |-> socketId, dbId |-> dbId]

\* the suspended handlers form a bag: two activations can be equal
Suspend(tb, t) == tb (+) SetToBag({t})

Finish(tb, t) == tb (-) SetToBag({t})

HasRoom(tb) == BagCardinality(tb) < MaxTasks

TaskPids(t) ==
  IF t.kind = "join" THEN {t.player.playerId}
  ELSE IF t.kind = "pair" THEN {t.p1.playerId, t.p2.playerId}
  ELSE {}

UsedPids ==
  {players[s].playerId : s \in DOMAIN players}
  \cup UNION {Range(queues[m]) : m \in DOMAIN queues}
  \cup UNION {{matchObj[m].players.white, matchObj[m].players.black} : m \in DOMAIN matchObj}
  \cup UNION {TaskPids(t) : t \in BagToSet(tasks)}

FindPlayer(ps, pid) ==
  IF \E s \in DOMAIN ps : ps[s].playerId = pid
  THEN {ps[CHOOSE s \in DOMAIN ps : ps[s].playerId = pid]}
  ELSE {}

\* the Match objects still reachable: in the Map, or held by a handler
Reachable(mo, keys, ts) ==
  [m \in (keys \cup {t.mid : t \in {x \in BagToSet(ts) : x.kind \in {"pair", "over"}}})
          \cap DOMAIN mo |-> mo[m]]

\* ------------------------------------------------------------------- Init
\* users.wallet_balance when the server starts
InitialBalance(u) == IF u = "u1" THEN 2500 ELSE 1500

Init ==
  /\ players = <<>>
  /\ queues = [m \in Modes |-> <<>>]
  /\ matches = {}
  /\ matchObj = <<>>
  /\ tasks = EmptyBag
  /\ closed = {}
  /\ now = 0
  /\ wallet = [u \in Users |-> InitialBalance(u)]
  /\ stats = [u \in Users |->
               [rating |-> IF u = "u1" THEN 0 ELSE 1200,
                wins |-> 0, losses |-> 0, draws |-> 0]]
  /\ inserted = {}
  /\ emitted = {}
  /\ logged = {}
  /\ settles = [m \in MatchIds |-> 0]
  /\ created = 0
  /\ failures = 0

\* ------------------------------------------------------------ time passes
Tick ==
  /\ now + TickMs <= MaxTicks * TickMs
  /\ DOMAIN matchObj # {}
  /\ now' = now + TickMs
  /\ inserted' = {}
  /\ emitted' = {}
  /\ logged' = {}
  /\ UNCHANGED <<players, queues, matches, matchObj, tasks, closed, wallet,
                 stats, settles, created, failures>>

\* -------------------------------------------------------- register_player
\* register_player without the scan of lines 659-674
EvictedNone(s, userId) == {}

Evicted(s, userId) == {x \in DOMAIN players : players[x].dbId = userId /\ x # s}

RECURSIVE RemoveAllFromQueues(_, _)
RemoveAllFromQueues(qs, pids) ==
  IF pids = {} THEN qs
  ELSE LET p == CHOOSE x \in pids : TRUE
       IN RemoveAllFromQueues(RemoveFromAllQueues(qs, p), pids \ {p})

RegisterPlayer(s, userId) ==
  /\ s \notin closed
  /\ PlayerIds \ UsedPids # {}
  /\ LET old == Evicted(s, userId)
         pid == Min(PlayerIds \ UsedPids)
         dbId == IF userId = Undefined THEN Null ELSE userId
     IN /\ queues' = RemoveAllFromQueues(queues, {players[x].playerId : x \in old})
        /\ players' = [x \in (DOMAIN players \ old) \cup {s} |->
                         IF x = s THEN Player(pid, s, dbId) ELSE players[x]]
        /\ emitted' = {Msg(x, "force_disconnect", 0, Null, Null, 0) : x \in old}
        /\ logged' = {Log("duplicate_login", x, Null) : x \in old}
                     \cup {Log("cleanup_removed", players[x].playerId, m) :
                             <<x, m>> \in {y \in old \X DOMAIN queues :
                                             IndexOf(queues[y[2]], players[y[1]].playerId) > 0}}
  /\ inserted' = {}
  /\ UNCHANGED <<matches, matchObj, tasks, closed, now, wallet, stats, settles, created, failures>>

\* ------------------------------------------------------------- disconnect
Disconnect(s) ==
  /\ s \notin closed
  /\ closed' = closed \cup {s}
  /\ IF s \in DOMAIN players
     THEN /\ queues' = RemoveFromAllQueues(queues, players[s].playerId)
          /\ players' = [x \in DOMAIN players \ {s} |-> players[x]]
     ELSE UNCHANGED <<players, queues>>
  /\ inserted' = {}
  /\ emitted' = {}
  /\ logged' = {}
  /\ UNCHANGED <<matches, matchObj, tasks, now, wallet, stats, settles, created, failures>>

\* ------------------------------------------------------------------ Match
StartMs(gameMode) ==
  IF gameMode = "BLITZ" THEN BlitzMs
  ELSE IF gameMode = "RAPID" THEN RapidMs
  ELSE IF gameMode = "CLASSICAL" THEN ClassicalMs
  ELSE BulletMs

\* chess.js position, kept as the number of plies played and the terminal
\* condition the oracle reports for it
NewChess == [plies |-> 0, flag |-> "none"]

ChessTurn(chess) == IF chess.plies % 2 = 0 THEN "white" ELSE "black"

Fen(chess) == <<chess.plies, chess.flag>>

Match(matchId, whitePlayerId, blackPlayerId, whiteDbId, blackDbId, gameMode, entryFee) ==
  [matchId |-> matchId,
   players |-> [white |-> whitePlayerId, black |-> blackPlayerId],
   whiteDbId |-> whiteDbId, blackDbId |-> blackDbId,
   gameMode |-> gameMode, entryFee |-> entryFee,
   chess |-> NewChess, fen |-> Fen(NewChess),
   turn |-> "white", status |-> "active",
   clock |-> [whiteMs |-> StartMs(gameMode), blackMs |-> StartMs(gameMode),
              lastMoveTs |-> now],
   result |-> NoResult]

\* ----------------------------------------------------------- matchPlayers
RECURSIVE Scan(_, _)
\* the scan returning at the self-match guard without the q.splice(1, 1)
\* of line 800
ScanKeepsSelfMatch(q, ps) ==
  IF Len(q) < 2 THEN [q |-> q, found |-> FALSE, self |-> FALSE]
  ELSE LET f1 == FindPlayer(ps, q[1])
           f2 == FindPlayer(ps, q[2])
       IN IF f1 = {} THEN Scan(Tail(q), ps)
          ELSE IF f2 = {} THEN Scan(Splice(q, 2), ps)
          ELSE LET p1 == CHOOSE x \in f1 : TRUE
                   p2 == CHOOSE x \in f2 : TRUE
               IN IF p1.dbId # Null /\ p2.dbId # Null /\ p1.dbId = p2.dbId
                  THEN [q |-> q, found |-> FALSE, self |-> TRUE]
                  ELSE [q |-> Tail(Tail(q)), found |-> TRUE, self |-> FALSE,
                        p1 |-> p1, p2 |-> p2]

\* the scan without the self-match guard of lines 798-802
ScanWithoutSelfGuard(q, ps) ==
  IF Len(q) < 2 THEN [q |-> q, found |-> FALSE, self |-> FALSE]
  ELSE LET f1 == FindPlayer(ps, q[1])
           f2 == FindPlayer(ps, q[2])
       IN IF f1 = {} THEN Scan(Tail(q), ps)
          ELSE IF f2 = {} THEN Scan(Splice(q, 2), ps)
          ELSE [q |-> Tail(Tail(q)), found |-> TRUE, self |-> FALSE,
                p1 |-> CHOOSE x \in f1 : TRUE, p2 |-> CHOOSE x \in f2 : TRUE]

\* the scan with q.shift() in place of the q.splice(1, 1) of line 795
ScanShiftsOnStaleSecond(q, ps) ==
  IF Len(q) < 2 THEN [q |-> q, found |-> FALSE, self |-> FALSE]
  ELSE LET f1 == FindPlayer(ps, q[1])
           f2 == FindPlayer(ps, q[2])
       IN IF f1 = {} \/ f2 = {} THEN Scan(Tail(q), ps)
          ELSE LET p1 == CHOOSE x \in f1 : TRUE
                   p2 == CHOOSE x \in f2 : TRUE
               IN IF p1.dbId # Null /\ p2.dbId # Null /\ p1.dbId = p2.dbId
                  THEN [Scan(Splice(q, 2), ps) EXCEPT !.self = TRUE]
                  ELSE [q |-> Tail(Tail(q)), found |-> TRUE, self |-> FALSE,
                        p1 |-> p1, p2 |-> p2]

Scan(q, ps) ==
  IF Len(q) < 2 THEN [q |-> q, found |-> FALSE, self |-> FALSE]
  ELSE LET f1 == FindPlayer(ps, q[1])
           f2 == FindPlayer(ps, q[2])
       IN IF f1 = {} THEN Scan(Tail(q), ps)
          ELSE IF f2 = {} THEN Scan(Splice(q, 2), ps)
          ELSE LET p1 == CHOOSE x \in f1 : TRUE
                   p2 == CHOOSE x \in f2 : TRUE
               IN IF p1.dbId # Null /\ p2.dbId # Null /\ p1.dbId = p2.dbId
                  THEN [Scan(Splice(q, 2), ps) EXCEPT !.self = TRUE]
                  ELSE [q |-> Tail(Tail(q)), found |-> TRUE, self |-> FALSE,
                        p1 |-> p1, p2 |-> p2]

PairPcs == <<"debit1", "debit2", "tx1", "tx2", "insert">>

PairAwaits(pc, p1, p2) ==
  IF pc \in {"debit1", "tx1"} THEN p1.dbId # Null
  ELSE IF pc \in {"debit2", "tx2"} THEN p2.dbId # Null
  ELSE TRUE

\* the first await at or after position i of matchPlayers' try block
NextPairPc(i, p1, p2) ==
  PairPcs[Min({j \in i..Len(PairPcs) : PairAwaits(PairPcs[j], p1, p2)})]

PairPos(pc) == CHOOSE j \in 1..Len(PairPcs) : PairPcs[j] = pc

PairTask(pc, p1, p2, mode, fee, mid, isP1White) ==
  [kind |-> "pair", pc |-> pc, p1 |-> p1, p2 |-> p2, mode |-> mode, fee |-> fee,
   mid |-> IF pc = "insert" THEN mid ELSE 0,
   isP1White |-> IF pc = "insert" THEN isP1White ELSE FALSE]

\* the Match of line 829 with the older entry always white
PairMatchOlderWhite(t, mid, isP1White) ==
  Match(mid, t.p1.playerId, t.p2.playerId, t.p1.dbId, t.p2.dbId, t.mode, t.fee)

PairMatch(t, mid, isP1White) ==
  Match(mid,
        IF isP1White THEN t.p1.playerId ELSE t.p2.playerId,
        IF isP1White THEN t.p2.playerId ELSE t.p1.playerId,
        IF isP1White THEN t.p1.dbId ELSE t.p2.dbId,
        IF isP1White THEN t.p2.dbId ELSE t.p1.dbId,
        t.mode, t.fee)

\* suspend matchPlayers on the await pc, tb being the other handlers; the
\* Match object is built (random colour, fresh id) right before the await
\* of the INSERT INTO matches
PairSuspend(tb, pc, p1, p2, mode, fee, isP1White) ==
  /\ pc = "insert" => created < NumMatchIds
  /\ created' = IF pc = "insert" THEN created + 1 ELSE created
  /\ LET mid == IF pc = "insert" THEN created + 1 ELSE 0
         t == PairTask(pc, p1, p2, mode, fee, mid, isP1White)
     IN /\ tasks' = Suspend(tb, t)
        /\ matchObj' = IF pc = "insert"
                       THEN [m \in DOMAIN matchObj \cup {mid} |->
                               IF m = mid THEN PairMatch(t, mid, isP1White)
                               ELSE matchObj[m]]
                       ELSE matchObj

MatchPlayers(qs, ps, tb, mode, fee, isP1White, lg) ==
  LET r == Scan(qs[mode], ps)
  IN /\ queues' = [qs EXCEPT ![mode] = r.q]
     /\ players' = ps
     /\ logged' = lg \cup (IF r.self THEN {Log("self_match", Null, mode)} ELSE {})
     /\ IF r.found
        THEN /\ HasRoom(tb)
             /\ PairSuspend(tb, NextPairPc(1, r.p1, r.p2), r.p1, r.p2, mode, fee, isP1White)
        ELSE /\ tasks' = tb
             /\ matchObj' = matchObj
             /\ created' = created

\* ------------------------------------------------------------- join_queue
\* lines 709-731: leave every queue, push, then pair when two are waiting
Enqueue(ps, tb, player, mode, fee, isP1White, lg) ==
  LET q1 == RemoveFromAllQueues(queues, player.playerId)
      q2 == [q1 EXCEPT ![mode] = Append(@, player.playerId)]
      lg2 == lg \cup {Log("already_queued", player.playerId, m) :
                        m \in {x \in DOMAIN queues : IndexOf(queues[x], player.playerId) > 0}}
                \cup {JoinedLine(player.dbId, mode, Len(q1[mode]) + 1)}
  IN IF Len(q2[mode]) >= 2
     THEN MatchPlayers(q2, ps, tb, mode, fee, isP1White, lg2)
     ELSE /\ queues' = q2
          /\ players' = ps
          /\ logged' = lg2
          /\ tasks' = tb
          /\ matchObj' = matchObj
          /\ created' = created

JoinQueue(s, userId, gameMode, entryFee, isP1White) ==
  /\ s \notin closed
  /\ s \in DOMAIN players => userId = Null
  /\ s \notin DOMAIN players => PlayerIds \ UsedPids # {}
  /\ LET player == IF s \in DOMAIN players THEN players[s]
                   ELSE Player(Min(PlayerIds \ UsedPids), s, userId)
         ps == [x \in DOMAIN players \cup {s} |-> IF x = s THEN player ELSE players[x]]
         mode == IF gameMode = Null THEN "BULLET" ELSE gameMode
         fee == IF entryFee = 0 THEN DefaultFee ELSE entryFee
     IN IF player.dbId # Null
        THEN /\ HasRoom(tasks)
             /\ isP1White = FALSE
             /\ tasks' = Suspend(tasks, [kind |-> "join", pc |-> "balance", sock |-> s,
                                         player |-> player, mode |-> mode, fee |-> fee])
             /\ players' = ps
             /\ logged' = {}
             /\ UNCHANGED <<queues, matchObj, created>>
        ELSE Enqueue(ps, tasks, player, mode, fee, isP1White, {})
  /\ inserted' = {}
  /\ emitted' = {}
  /\ UNCHANGED <<matches, closed, now, wallet, stats, settles, failures>>

\* the comparison of line 699 with its operands exchanged
InsufficientSwapped(balance, fee) == fee < balance

\* line 699
Insufficient(balance, fee) == balance < fee

\* the SELECT wallet_balance of line 696 returns (or fails), lines 697-731
JoinResume(t, ok, isP1White) ==
  /\ t.kind = "join"
  /\ ~ok => failures < MaxFailures
  /\ failures' = IF ok THEN failures ELSE failures + 1
  /\ LET tb == Finish(tasks, t)
         hasRow == ok /\ t.player.dbId \in DOMAIN wallet
     IN IF hasRow /\ Insufficient(wallet[t.player.dbId], t.fee)
        THEN /\ isP1White = FALSE
             /\ emitted' = {Msg(t.sock, "error_message", 0, Null, Null, t.fee)}
             /\ logged' = {}
             /\ tasks' = tb
             /\ UNCHANGED <<players, queues, matchObj, created>>
        ELSE /\ emitted' = {}
             /\ Enqueue(players, tb, t.player, t.mode, t.fee, isP1White,
                        IF ok THEN {} ELSE {Log("balance_check_failed", t.player.playerId, Null)})
  /\ inserted' = {}
  /\ UNCHANGED <<matches, closed, now, wallet, stats, settles>>

\* one awaited statement of matchPlayers completes (or throws), lines 808-852
PairResume(t, ok, isP1White) ==
  /\ t.kind = "pair"
  /\ ~ok => failures < MaxFailures
  /\ failures' = IF ok THEN failures ELSE failures + 1
  /\ LET tb == Finish(tasks, t)
         pc == t.pc
         who == IF pc \in {"debit1", "tx1"} THEN t.p1 ELSE t.p2
         white == IF t.isP1White THEN t.p1 ELSE t.p2
         black == IF t.isP1White THEN t.p2 ELSE t.p1
     IN IF ~ok
        THEN \* catch (e) of line 849
             /\ isP1White = FALSE
             /\ tasks' = tb
             /\ matchObj' = Reachable(matchObj, matches, tb)
             /\ inserted' = {}
             /\ emitted' = {}
             /\ logged' = {Log("match_creation_failed", Null, t.mode)}
             /\ UNCHANGED <<matches, wallet, created>>
        ELSE IF pc = "insert"
        THEN /\ isP1White = FALSE
             /\ inserted' = {Row("matches", Null, t.mid, t.fee, "created")}
             /\ matches' = matches \cup {t.mid}
             /\ emitted' = {Msg(white.socketId, "match_found", t.mid, "white", Null, 0),
                            Msg(black.socketId, "match_found", t.mid, "black", Null, 0)}
             /\ tasks' = tb
             /\ logged' = {}
             /\ UNCHANGED <<matchObj, wallet, created>>
        ELSE /\ wallet' = IF pc \in {"debit1", "debit2"} /\ who.dbId \in DOMAIN wallet
                          THEN [wallet EXCEPT ![who.dbId] = @ - t.fee]
                          ELSE wallet
             /\ inserted' = IF pc \in {"tx1", "tx2"}
                            THEN {Row("transactions", who.dbId, 0, t.fee, "entry_fee")}
                            ELSE {}
             /\ emitted' = {}
             /\ logged' = {}
             /\ PairSuspend(tb, NextPairPc(PairPos(pc) + 1, t.p1, t.p2),
                            t.p1, t.p2, t.mode, t.fee, isP1White)
             /\ UNCHANGED matches
  /\ UNCHANGED <<players, queues, closed, now, stats, settles>>

\* ------------------------------------------------------ Match.updateClock
\* updateClock without the assignments to this.result of lines 624 and 629
UpdateClockNoResult(m) ==
  LET elapsed == now - m.clock.lastMoveTs
      whiteMs == IF m.turn = "white" THEN Max0(0, m.clock.whiteMs - elapsed)
                 ELSE m.clock.whiteMs
      blackMs == IF m.turn = "white" THEN m.clock.blackMs
                 ELSE Max0(0, m.clock.blackMs - elapsed)
      clock == [whiteMs |-> whiteMs, blackMs |-> blackMs, lastMoveTs |-> now]
  IN IF whiteMs = 0 \/ blackMs = 0
     THEN [m EXCEPT !.clock = clock, !.status = "finished"]
     ELSE [m EXCEPT !.clock = clock]

\* updateClock with the winners of lines 624 and 629 exchanged
UpdateClockWinnerSwapped(m) ==
  LET elapsed == now - m.clock.lastMoveTs
      whiteMs == IF m.turn = "white" THEN Max0(0, m.clock.whiteMs - elapsed)
                 ELSE m.clock.whiteMs
      blackMs == IF m.turn = "white" THEN m.clock.blackMs
                 ELSE Max0(0, m.clock.blackMs - elapsed)
      clock == [whiteMs |-> whiteMs, blackMs |-> blackMs, lastMoveTs |-> now]
  IN IF whiteMs = 0
     THEN [m EXCEPT !.clock = clock, !.status = "finished",
                    !.result = [winner |-> "white", reason |-> "timeout"]]
     ELSE IF blackMs = 0
     THEN [m EXCEPT !.clock = clock, !.status = "finished",
                    !.result = [winner |-> "black", reason |-> "timeout"]]
     ELSE [m EXCEPT !.clock = clock]

UpdateClock(m) ==
  LET elapsed == now - m.clock.lastMoveTs
      whiteMs == IF m.turn = "white" THEN Max0(0, m.clock.whiteMs - elapsed)
                 ELSE m.clock.whiteMs
      blackMs == IF m.turn = "white" THEN m.clock.blackMs
                 ELSE Max0(0, m.clock.blackMs - elapsed)
      clock == [whiteMs |-> whiteMs, blackMs |-> blackMs, lastMoveTs |-> now]
  IN IF whiteMs = 0
     THEN [m EXCEPT !.clock = clock, !.status = "finished",
                    !.result = [winner |-> "black", reason |-> "timeout"]]
     ELSE IF blackMs = 0
     THEN [m EXCEPT !.clock = clock, !.status = "finished",
                    !.result = [winner |-> "white", reason |-> "timeout"]]
     ELSE [m EXCEPT !.clock = clock]

\* --------------------------------------------------------- Match.makeMove
\* what the rules oracle can answer to chess.move() in a position: a
\* checkmated or stalemated position has no legal move; every other
\* position has some, and the position after one is ordinary ("none"),
\* checkmate, stalemate or another draw (material, repetition, 50 moves)
Outcomes == {"illegal", "none", "mate", "stale", "draw"}

\* makeMove without the return of line 637
LegalAny(chess, outcome) == TRUE

Legal(chess, outcome) ==
  /\ outcome # "illegal"
  /\ chess.flag \notin {"mate", "stale"}
  /\ chess.plies < MaxPlies

ChessMove(chess, outcome) == [plies |-> chess.plies + 1, flag |-> outcome]

\* makeMove with the test of line 643 naming the side to move as winner
MakeMoveMatedWins(m, outcome) ==
  LET chess == ChessMove(m.chess, outcome)
      moved == [m EXCEPT !.chess = chess, !.fen = Fen(chess), !.turn = ChessTurn(chess)]
      timed == UpdateClock(moved)
  IN IF chess.flag = "mate"
     THEN [timed EXCEPT !.result = [winner |-> ChessTurn(chess), reason |-> "checkmate"],
                        !.status = "finished"]
     ELSE IF chess.flag \in {"stale", "draw"}
     THEN [timed EXCEPT !.result = [winner |-> "draw", reason |-> "draw"],
                        !.status = "finished"]
     ELSE timed

MakeMove(m, outcome) ==
  LET chess == ChessMove(m.chess, outcome)
      moved == [m EXCEPT !.chess = chess, !.fen = Fen(chess), !.turn = ChessTurn(chess)]
      timed == UpdateClock(moved)
  IN IF chess.flag = "mate"
     THEN [timed EXCEPT !.result = [winner |-> Other(ChessTurn(chess)), reason |-> "checkmate"],
                        !.status = "finished"]
     ELSE IF chess.flag \in {"stale", "draw"}
     THEN [timed EXCEPT !.result = [winner |-> "draw", reason |-> "draw"],
                        !.status = "finished"]
     ELSE timed

\* --------------------------------------------------------- handleGameOver
DrawPcs == <<"wRefund", "wRefundTx", "wDraws", "bRefund", "bRefundTx", "bDraws", "drawUpd">>

WinPcs == <<"wins", "losses", "matchUpd", "credit", "winTx", "earn">>

OverPcs(draw) == IF draw THEN DrawPcs ELSE WinPcs

OverAwaits(pc, m) ==
  IF pc \in {"wRefund", "wRefundTx", "wDraws"} THEN m.whiteDbId # Null
  ELSE IF pc \in {"bRefund", "bRefundTx", "bDraws"} THEN m.blackDbId # Null
  ELSE TRUE

\* the first await at or after position i of handleGameOver; "return" when
\* there is none
NextOverPc(draw, i, m) ==
  LET pcs == OverPcs(draw)
      idx == {j \in i..Len(pcs) : OverAwaits(pcs[j], m)}
  IN IF idx = {} THEN "return" ELSE pcs[Min(idx)]

OverPos(draw, pc) == CHOOSE j \in 1..Len(OverPcs(draw)) : OverPcs(draw)[j] = pc

\* line 249 always taking its default
DrawFeeDefault(entryFee) == DefaultFee

\* line 249
DrawFee(entryFee) == IF entryFee = 0 THEN DefaultFee ELSE entryFee

\* lines 276-277
WinnerRating(rating) == rating + RatingStep

\* line 277 without GREATEST(0, ...)
LoserRatingUnfloored(rating) == rating - RatingStep

LoserRating(rating) == Max0(0, rating - RatingStep)

\* lines 284-288; the game_over payload carries the unrounded winnings,
\* counted here in tenths of a paisa
Winnings10(entryFee) == 7 * entryFee

\* line 288 stored by truncation instead of rounding
TotalReturnTruncated(entryFee) == (17 * entryFee) \div 10

TotalReturn(entryFee) == RoundCents(17 * entryFee, 10)

CompanyCut(entryFee) == RoundCents(3 * entryFee, 10)

\* lines 246-273: the synchronous head of handleGameOver
OverTask(m) ==
  LET draw == m.result.winner = "draw"
  IN [kind |-> "over", pc |-> NextOverPc(draw, 1, m), mid |-> m.matchId, draw |-> draw,
      fee |-> IF draw THEN DrawFee(m.entryFee) ELSE m.entryFee,
      winnerId |-> IF draw THEN Null
                   ELSE IF m.result.winner = "white" THEN m.whiteDbId ELSE m.blackDbId,
      loserId |-> IF draw THEN Null
                  ELSE IF m.result.winner = "white" THEN m.blackDbId ELSE m.whiteDbId]

SocketsOf(pid) == {s \in DOMAIN players : players[s].playerId = pid}

\* --------------------------------------------------------------- make_move
MakeMoveEvent(s, mid, outcome) ==
  /\ s \notin closed
  /\ mid \in matches
  /\ LET m == matchObj[mid]
     IN IF ~Legal(m.chess, outcome)
        THEN /\ emitted' = {Msg(s, "illegal_move", mid, Null, Null, 0)}
             /\ UNCHANGED <<matchObj, tasks, settles>>
        ELSE LET m2 == MakeMove(m, outcome)
             IN /\ matchObj' = [matchObj EXCEPT ![mid] = m2]
                /\ emitted' = {Msg(x, "move_result", mid, Null, Null, 0) :
                                 x \in SocketsOf(m2.players.white) \cup SocketsOf(m2.players.black)}
                /\ IF m2.status = "finished"
                   THEN /\ HasRoom(tasks)
                        /\ tasks' = Suspend(tasks, OverTask(m2))
                        /\ settles' = [settles EXCEPT ![mid] = @ + 1]
                   ELSE UNCHANGED <<tasks, settles>>
  /\ inserted' = {}
  /\ logged' = {}
  /\ UNCHANGED <<players, queues, matches, closed, now, wallet, stats, created, failures>>

\* one awaited statement of handleGameOver completes (or throws); after the
\* last one handleGameOver returns and make_move deletes the match (line 760)
OverResume(t, ok) ==
  /\ t.kind = "over"
  /\ ~ok => failures < MaxFailures
  /\ failures' = IF ok THEN failures ELSE failures + 1
  /\ LET m == matchObj[t.mid]
         pc == t.pc
         tb == Finish(tasks, t)
         nxt == NextOverPc(t.draw, OverPos(t.draw, pc) + 1, m)
         who == IF pc \in {"wRefund", "wRefundTx", "wDraws"} THEN m.whiteDbId
                ELSE IF pc \in {"bRefund", "bRefundTx", "bDraws"} THEN m.blackDbId
                ELSE IF pc = "losses" THEN t.loserId
                ELSE t.winnerId
         amount == IF t.draw THEN t.fee ELSE TotalReturn(t.fee)
         winnerPid == m.players[IF m.result.winner = "white" THEN "white" ELSE "black"]
         loserPid == m.players[IF m.result.winner = "white" THEN "black" ELSE "white"]
     IN IF ~ok
        THEN /\ tasks' = tb
             /\ emitted' = {}
             /\ inserted' = {}
             /\ matchObj' = Reachable(matchObj, matches, tb)
             /\ UNCHANGED <<matches, wallet, stats>>
        ELSE /\ wallet' = IF pc \in {"wRefund", "bRefund", "credit"} /\ who \in DOMAIN wallet
                          THEN [wallet EXCEPT ![who] = @ + amount]
                          ELSE wallet
             /\ stats' = IF who \notin DOMAIN stats THEN stats
                         ELSE IF pc \in {"wDraws", "bDraws"}
                         THEN [stats EXCEPT ![who].draws = @ + 1]
                         ELSE IF pc = "wins"
                         THEN [stats EXCEPT ![who].wins = @ + 1,
                                            ![who].rating = WinnerRating(@)]
                         ELSE IF pc = "losses"
                         THEN [stats EXCEPT ![who].losses = @ + 1,
                                            ![who].rating = LoserRating(@)]
                         ELSE stats
             /\ inserted' = IF pc \in {"wRefundTx", "bRefundTx"}
                            THEN {Row("transactions", who, t.mid, amount, "refund")}
                            ELSE IF pc = "winTx"
                            THEN {Row("transactions", who, t.mid, amount, "winnings")}
                            ELSE IF pc = "earn"
                            THEN {Row("company_earnings", Null, t.mid, CompanyCut(t.fee), "cut")}
                            ELSE IF pc = "drawUpd"
                            THEN {Row("matches", Null, t.mid, 0, "draw")}
                            ELSE IF pc = "matchUpd"
                            THEN {Row("matches", who, t.mid, 0, m.result.reason)}
                            ELSE {}
             /\ IF nxt = "return"
                THEN /\ emitted' = IF t.draw THEN {}
                                   ELSE {Msg(x, "game_over", t.mid, m.result.winner,
                                             m.result.reason, Winnings10(t.fee)) :
                                           x \in SocketsOf(winnerPid)}
                                        \cup {Msg(x, "game_over", t.mid, m.result.winner,
                                                  m.result.reason, 0) :
                                                x \in SocketsOf(loserPid)}
                     /\ matches' = matches \ {t.mid}
                     /\ tasks' = tb
                     /\ matchObj' = Reachable(matchObj, matches \ {t.mid}, tb)
                ELSE /\ emitted' = {}
                     /\ tasks' = Suspend(tb, [t EXCEPT !.pc = nxt])
                     /\ UNCHANGED <<matches, matchObj>>
  /\ logged' = {}
  /\ UNCHANGED <<players, queues, closed, now, settles, created>>

Next ==
  \/ Tick
  \/ \E s \in Sockets, u \in Users \cup {Null, Undefined} : RegisterPlayer(s, u)
  \/ \E s \in Sockets : Disconnect(s)
  \/ \E s \in Sockets, u \in Users \cup {Null}, g \in {Null, "BLITZ"}, f \in FeeInputs, w \in BOOLEAN :
       JoinQueue(s, u, g, f, w)
  \/ \E t \in BagToSet(tasks), ok \in BOOLEAN, w \in BOOLEAN : JoinResume(t, ok, w)
  \/ \E t \in BagToSet(tasks), ok \in BOOLEAN, w \in BOOLEAN : PairResume(t, ok, w)
  \/ \E s \in Sockets, mid \in MatchIds, o \in Outcomes : MakeMoveEvent(s, mid, o)
  \/ \E t \in BagToSet(tasks), ok \in BOOLEAN : OverResume(t, ok)

Spec == Init /\ [][Next]_vars

\* The lobby: registry, queues and pairing, with a store that answers every
\* statement, and at most one Match constructed.
LobbyNext ==
  /\ \/ \E s \in Sockets, u \in Users \cup {Null, Undefined} : RegisterPlayer(s, u)
     \/ \E s \in Sockets : Disconnect(s)
     \/ \E s \in Sockets, u \in Users \cup {Null}, g \in {Null, "BLITZ"}, f \in FeeInputs, w \in BOOLEAN :
          JoinQueue(s, u, g, f, w)
     \/ \E t \in BagToSet(tasks), w \in BOOLEAN : JoinResume(t, TRUE, w)
     \/ \E t \in BagToSet(tasks), w \in BOOLEAN : PairResume(t, TRUE, w)
  /\ created' <= 1

LobbySpec == Init /\ [][LobbyNext]_vars

\* One session from pairing to settlement: every connection joins the
\* BULLET queue once, the store answers every statement, and the clients
\* then send moves while time passes.
GameNext ==
  /\ \/ Tick
     \/ /\ created = 0
        /\ \E s \in Sockets \ DOMAIN players, u \in Users \cup {Null}, f \in FeeInputs, w \in BOOLEAN :
             JoinQueue(s, u, Null, f, w)
     \/ \E t \in BagToSet(tasks), w \in BOOLEAN : JoinResume(t, TRUE, w)
     \/ \E t \in BagToSet(tasks), w \in BOOLEAN : PairResume(t, TRUE, w)
     \/ \E s \in Sockets, mid \in MatchIds, o \in Outcomes : MakeMoveEvent(s, mid, o)
     \/ \E t \in BagToSet(tasks) : OverResume(t, TRUE)
  /\ created' <= 1

GameSpec == Init /\ [][GameNext]_vars

\* One session with a store that may fail: every connection joins the
\* BULLET queue once with the default stake, and each awaited statement
\* either succeeds or throws, MaxFailures times at most.
FaultyNext ==
  /\ \/ /\ created = 0
        /\ \E s \in Sockets \ DOMAIN players, u \in Users \cup {Null}, w \in BOOLEAN :
             JoinQueue(s, u, Null, 0, w)
     \/ \E t \in BagToSet(tasks), ok \in BOOLEAN, w \in BOOLEAN : JoinResume(t, ok, w)
     \/ \E t \in BagToSet(tasks), ok \in BOOLEAN, w \in BOOLEAN : PairResume(t, ok, w)
     \/ \E s \in Sockets, mid \in MatchIds, o \in Outcomes : MakeMoveEvent(s, mid, o)
     \/ \E t \in BagToSet(tasks), ok \in BOOLEAN : OverResume(t, ok)
  /\ created' <= 1

FaultySpec == Init /\ [][FaultyNext]_vars

\* Pairing again: the connections send join_queue for the BULLET queue with
\* the default stake as often as they like, the store answers every
\* statement, and no move is sent.
RematchNext ==
  \/ \E s \in Sockets, u \in Users \cup {Null}, w \in BOOLEAN : JoinQueue(s, u, Null, 0, w)
  \/ \E t \in BagToSet(tasks), w \in BOOLEAN : JoinResume(t, TRUE, w)
  \/ \E t \in BagToSet(tasks), w \in BOOLEAN : PairResume(t, TRUE, w)

RematchSpec == Init /\ [][RematchNext]_vars

\* the entryFee each connection sends with its join_queue in StakesSpec:
\* s1 leaves it out and gets the default, the others ask for 20.01
Requested(s) == IF s = "s1" THEN 0 ELSE 2001

\* Two stakes: the connections join the BULLET queue, each always with its
\* own entryFee, the store answers every statement, and at most one Match
\* is constructed.
StakesNext ==
  /\ \/ \E s \in Sockets, u \in Users \cup {Null}, w \in BOOLEAN :
          JoinQueue(s, u, Null, Requested(s), w)
     \/ \E t \in BagToSet(tasks), w \in BOOLEAN : JoinResume(t, TRUE, w)
     \/ \E t \in BagToSet(tasks), w \in BOOLEAN : PairResume(t, TRUE, w)
  /\ created' <= 1

StakesSpec == Init /\ [][StakesNext]_vars

\* a store statement that was sent is answered
Resumes ==
  \/ \E t \in BagToSet(tasks), w \in BOOLEAN : JoinResume(t, TRUE, w)
  \/ \E t \in BagToSet(tasks), w \in BOOLEAN : PairResume(t, TRUE, w)
  \/ \E t \in BagToSet(tasks) : OverResume(t, TRUE)

\* GameSpec where time keeps passing and the store keeps answering; the
\* clients owe nothing
FairGameSpec == GameSpec /\ WF_vars(Tick) /\ WF_vars(Resumes)

\* ------------------------------------------------------------ properties
Budget(m, color) == IF color = "white" THEN m.clock.whiteMs ELSE m.clock.blackMs

\* the step applied a move to the Match mid
Accepted(mid) ==
  /\ mid \in DOMAIN matchObj
  /\ mid \in DOMAIN matchObj'
  /\ matchObj'[mid].chess.plies = matchObj[mid].chess.plies + 1

\* C1: handleGameOver is started at most once for a session, whatever the
\* interleaving of make_move events with a settlement suspended on the store.
C1_SettledAtMostOnce == \A mid \in MatchIds : settles[mid] <= 1

\* C2: once a session is finished, no step changes its outcome, position,
\* side to move, clock budgets or status: a make_move for it is a no-op.
C2_FinishedIsFrozen ==
  [][\A mid \in DOMAIN matchObj :
       (matchObj[mid].status = "finished" /\ mid \in DOMAIN matchObj')
         => matchObj'[mid] = matchObj[mid]]_vars

\* C3: a make_move is applied only when the connection that sent it is
\* registered to the participant assigned to the side whose turn it is.
C3_OnlySideToMove ==
  [][\A s \in Sockets, mid \in MatchIds, o \in Outcomes :
       (MakeMoveEvent(s, mid, o) /\ Accepted(mid))
         => /\ s \in DOMAIN players
            /\ players[s].playerId = matchObj[mid].players[matchObj[mid].turn]]_vars

\* C4: an accepted move on an active session subtracts the time elapsed
\* since the last clock event from the budget of the side that moved, and
\* leaves the other side's budget as it was.
C4_MoverIsCharged ==
  [][\A mid \in DOMAIN matchObj :
       (Accepted(mid) /\ matchObj[mid].status = "active")
         => LET m == matchObj[mid]
                mover == m.turn
                elapsed == now - m.clock.lastMoveTs
            IN /\ Budget(matchObj'[mid], mover) = Max0(0, Budget(m, mover) - elapsed)
               /\ Budget(matchObj'[mid], Other(mover)) = Budget(m, Other(mover))]_vars

\* the side to move of the active session mid has used up its budget, k
\* plies having been played
Expired(mid, k) ==
  /\ mid \in matches
  /\ matchObj[mid].status = "active"
  /\ matchObj[mid].chess.plies = k
  /\ now - matchObj[mid].clock.lastMoveTs >= Budget(matchObj[mid], matchObj[mid].turn)

TimedOut(mid) ==
  \/ mid \notin DOMAIN matchObj
  \/ /\ matchObj[mid].status = "finished"
     /\ matchObj[mid].result.reason = "timeout"

\* C5: when the side to move of an active session lets its budget run out,
\* the session becomes finished with reason timeout unless a further move
\* is played: no make_move event is needed for it.
C5_TimeoutWithoutMove ==
  \A mid \in MatchIds, k \in 0..MaxPlies :
    Expired(mid, k) ~> (TimedOut(mid) \/ matchObj[mid].chess.plies # k)

\* the awaited statement of the suspended handler t succeeded and t ran on
Resumed(t) ==
  /\ t \in BagToSet(tasks)
  /\ CopiesIn(t, tasks') < CopiesIn(t, tasks)
  /\ failures' = failures

\* the positions <<mode, index>> at which pid is queued
Entries(qs, pid) ==
  UNION {{<<m, i>> : i \in {j \in 1..Len(qs[m]) : qs[m][j] = pid}} : m \in DOMAIN qs}

\* C6: every participant identity is queued at most once over all mode
\* queues, and a join_queue by a participant that was queued leaves it, at
\* most, the one new entry at the tail of a queue.
C6_SingleMembership ==
  /\ [](\A pid \in PlayerIds : Cardinality(Entries(queues, pid)) <= 1)
  /\ [][\A pid \in PlayerIds, m \in Modes :
          Log("already_queued", pid, m) \in logged'
            => /\ Cardinality(Entries(queues', pid)) <= 1
               /\ \A e \in Entries(queues', pid) : e[2] = Len(queues'[e[1]])]_vars

\* a participant queued for BULLET has joined BLITZ and waits there
C6_Rejoined ==
  \E pid \in PlayerIds :
    /\ Log("already_queued", pid, "BULLET") \in logged
    /\ Entries(queues, pid) = {<<"BLITZ", Len(queues["BLITZ"])>>}

\* C10: when the balance read for a join_queue is lower than the requested
\* stake, the only event sent is an error_message to the joining connection
\* and every mode queue stays as it was.
C10_InsufficientBalance ==
  [][\A t \in BagToSet(tasks) :
       (/\ Resumed(t)
        /\ t.kind = "join"
        /\ t.player.dbId \in DOMAIN wallet
        /\ wallet[t.player.dbId] < t.fee)
         => /\ emitted' # {}
            /\ \A e \in emitted' : e.event = "error_message" /\ e.to = t.sock
            /\ queues' = queues]_vars

\* a queued participant was refused a second join and is still queued
C10_Refused ==
  \E e \in emitted :
    /\ e.event = "error_message"
    /\ e.to \in DOMAIN players
    /\ players[e.to].dbId \in DOMAIN wallet
    /\ wallet[players[e.to].dbId] < e.amount
    /\ Entries(queues, players[e.to].playerId) # {}

\* x is num/den paise rounded to the nearest whole paisa
NearestPaisa(x, num, den) == 2 * den * x - 2 * num \in (1 - den)..den

\* the rows of the given type written by the step
Written(type) == {r \in inserted' : r.type = type}

\* C7 as stated: each run of a decisive settlement with stake S credits the
\* winner exactly 1.7*S in one update, records one winnings transaction of
\* 1.7*S and operator earnings of exactly 0.3*S, and changes no other wallet.
C7_ExactShares ==
  [][\A t \in BagToSet(tasks) :
       (Resumed(t) /\ t.kind = "over" /\ ~t.draw)
         => LET S == matchObj[t.mid].entryFee
            IN /\ \A u \in Users :
                    wallet'[u] # wallet[u]
                      => /\ u = t.winnerId
                         /\ t.pc = "credit"
                         /\ 10 * (wallet'[u] - wallet[u]) = 17 * S
               /\ \A r \in Written("winnings") : 10 * r.amount = 17 * S
               /\ \A r \in Written("cut") : 10 * r.amount = 3 * S]_vars

\* C7 to the grain of the store: each run of a decisive settlement with
\* stake S credits the winner, when it has an account, 1.7*S rounded to the
\* paisa in one update, records one winnings transaction of that amount and
\* operator earnings of 0.3*S rounded to the paisa for the match, and
\* changes no other wallet.
C7_RoundedShares ==
  [][\A t \in BagToSet(tasks) :
       (Resumed(t) /\ t.kind = "over" /\ ~t.draw)
         => LET S == matchObj[t.mid].entryFee
            IN /\ \A u \in Users :
                    wallet'[u] # wallet[u]
                      => /\ u = t.winnerId
                         /\ t.pc = "credit"
                         /\ NearestPaisa(wallet'[u] - wallet[u], 17 * S, 10)
               /\ (t.pc = "credit" /\ t.winnerId \in Users)
                    => wallet'[t.winnerId] # wallet[t.winnerId]
               /\ \A r \in Written("winnings") :
                    /\ r.table = "transactions"
                    /\ r.user = t.winnerId
                    /\ r.mid = t.mid
                    /\ NearestPaisa(r.amount, 17 * S, 10)
               /\ \A r \in Written("cut") :
                    /\ r.table = "company_earnings"
                    /\ r.mid = t.mid
                    /\ NearestPaisa(r.amount, 3 * S, 10)
               /\ Cardinality(Written("winnings")) = IF t.pc = "winTx" THEN 1 ELSE 0
               /\ Cardinality(Written("cut")) = IF t.pc = "earn" THEN 1 ELSE 0]_vars

\* a winner with an account was credited and its winnings recorded, for a
\* stake of 20.01 whose shares are not whole paise
C7_WinningsRecorded ==
  \E t \in BagToSet(tasks), r \in inserted :
    /\ t.kind = "over"
    /\ t.pc = "earn"
    /\ t.winnerId \in Users
    /\ matchObj[t.mid].entryFee = 2001
    /\ r.type = "winnings"
    /\ r.user = t.winnerId
    /\ r.amount = 3402

\* C9: a decisive settlement sets the winner's rating to its rating plus 10
\* and the loser's to max(0, rating - 10), and no rating is ever negative.
C9_Ratings ==
  /\ [](\A u \in Users : stats[u].rating >= 0)
  /\ [][\A t \in BagToSet(tasks) :
          (Resumed(t) /\ t.kind = "over" /\ ~t.draw)
            => stats' =
                 IF t.pc = "wins" /\ t.winnerId \in Users
                 THEN [stats EXCEPT ![t.winnerId].wins = @ + 1,
                                    ![t.winnerId].rating = @ + RatingStep]
                 ELSE IF t.pc = "losses" /\ t.loserId \in Users
                 THEN [stats EXCEPT ![t.loserId].losses = @ + 1,
                                    ![t.loserId].rating =
                                      IF @ >= RatingStep THEN @ - RatingStep ELSE 0]
                 ELSE stats]_vars

\* u1, whose rating was 0, has lost to u2, whose rating was 1200
C9_FlooredLoss ==
  /\ stats["u1"].rating = 0
  /\ stats["u1"].losses = 1
  /\ stats["u2"].wins = 1
  /\ stats["u2"].rating = 1200 + RatingStep

WhiteDrawPcs == {"wRefund", "wRefundTx", "wDraws"}

BlackDrawPcs == {"bRefund", "bRefundTx", "bDraws"}

\* the account a statement of the draw branch is about
DrawSide(pc, m) ==
  IF pc \in WhiteDrawPcs THEN m.whiteDbId
  ELSE IF pc \in BlackDrawPcs THEN m.blackDbId
  ELSE Null

\* q is the statement a draw settlement of m runs after p: the next one
\* that is not about a side without an account
Follows(p, q, m) ==
  \E i \in 1..Len(DrawPcs), j \in 1..Len(DrawPcs) :
    /\ i < j
    /\ DrawPcs[i] = p
    /\ DrawPcs[j] = q
    /\ (q = "drawUpd" \/ DrawSide(q, m) # Null)
    /\ \A k \in (i + 1)..(j - 1) : DrawSide(DrawPcs[k], m) = Null

\* C8: a draw settlement with stake S runs, for each side that has an
\* account and for no other, one refund of exactly S, one refund transaction
\* of S and one increment of the draw counter, and records no operator
\* earnings.
C8_DrawRefunds ==
  [][/\ \A t \in BagToSet(tasks') :
          (/\ t.kind = "over"
           /\ t.draw
           /\ CopiesIn(t, tasks') > CopiesIn(t, tasks)
           /\ settles' # settles)
            => LET m == matchObj'[t.mid]
               IN t.pc = IF m.whiteDbId # Null THEN "wRefund"
                         ELSE IF m.blackDbId # Null THEN "bRefund"
                         ELSE "drawUpd"
     /\ \A t \in BagToSet(tasks) :
          (Resumed(t) /\ t.kind = "over" /\ t.draw)
            => LET m == matchObj[t.mid]
                   S == m.entryFee
                   side == DrawSide(t.pc, m)
               IN /\ t.pc # "drawUpd" => side \in Users
                  /\ wallet' = IF t.pc \in {"wRefund", "bRefund"}
                               THEN [wallet EXCEPT ![side] = @ + S]
                               ELSE wallet
                  /\ Written("refund") =
                       IF t.pc \in {"wRefundTx", "bRefundTx"}
                       THEN {Row("transactions", side, t.mid, S, "refund")}
                       ELSE {}
                  /\ stats' = IF t.pc \in {"wDraws", "bDraws"}
                              THEN [stats EXCEPT ![side].draws = @ + 1]
                              ELSE stats
                  /\ Written("cut") = {}
                  /\ Written("winnings") = {}
                  /\ \/ t.pc = "drawUpd" /\ BagCardinality(tasks') < BagCardinality(tasks)
                     \/ \E q \in Range(DrawPcs) :
                          /\ Follows(t.pc, q, m)
                          /\ CopiesIn([t EXCEPT !.pc = q], tasks')
                               > CopiesIn([t EXCEPT !.pc = q], tasks)]_vars

\* the one side of a drawn session that has an account got its stake of
\* 20.01 back and the refund was recorded; the other side has no account
C8_OneSideRefunded ==
  \E t \in BagToSet(tasks), r \in inserted :
    /\ t.kind = "over"
    /\ t.draw
    /\ t.pc \in {"wDraws", "bDraws"}
    /\ matchObj[t.mid].entryFee = 2001
    /\ Null \in {matchObj[t.mid].whiteDbId, matchObj[t.mid].blackDbId}
    /\ r = Row("transactions", DrawSide(t.pc, matchObj[t.mid]), t.mid, 2001, "refund")

\* C11: a register_player of an account that the entry of another
\* connection holds removes that entry from every queue and from the
\* registry, sends it force_disconnect, and leaves the new entry as the
\* only one of the account.
C11_Eviction ==
  [][\A s \in Sockets, u \in Users :
       RegisterPlayer(s, u)
         => /\ \A x \in DOMAIN players :
                 (players[x].dbId = u /\ x # s)
                   => /\ x \notin DOMAIN players'
                      /\ Entries(queues', players[x].playerId) = {}
                      /\ Msg(x, "force_disconnect", 0, Null, Null, 0) \in emitted'
            /\ {x \in DOMAIN players' : players'[x].dbId = u} = {s}]_vars

\* a queued entry was evicted by the registration of its account on the
\* other connection
C11_Evicted ==
  \E x \in Sockets, s \in DOMAIN players, pid \in PlayerIds :
    /\ x # s
    /\ x \notin DOMAIN players
    /\ players[s].dbId \in Users
    /\ Msg(x, "force_disconnect", 0, Null, Null, 0) \in emitted
    /\ Log("duplicate_login", x, Null) \in logged
    /\ Log("cleanup_removed", pid, "BULLET") \in logged
    /\ Entries(queues, pid) = {}

\* C12: a make_move the rules oracle reports illegal changes no session,
\* starts no settlement, and sends one illegal_move, to the sender.
C12_IllegalMoveFrame ==
  [][\A s \in Sockets, mid \in MatchIds :
       MakeMoveEvent(s, mid, "illegal")
         => /\ matchObj' = matchObj
            /\ matches' = matches
            /\ settles' = settles
            /\ tasks' = tasks
            /\ emitted' = {Msg(s, "illegal_move", mid, Null, Null, 0)}]_vars

\* an illegal move for an active session with plies left was refused
C12_Refused ==
  \E e \in emitted :
    /\ e.event = "illegal_move"
    /\ e.mid \in matches
    /\ matchObj[e.mid].status = "active"
    /\ matchObj[e.mid].chess.plies \in 1..(MaxPlies - 1)

\* C13: the status of a session is active or finished, never goes from
\* finished back to active, and its result is set exactly when it is
\* finished.
C13_StatusAndResult ==
  /\ [](\A mid \in DOMAIN matchObj :
          /\ matchObj[mid].status \in {"active", "finished"}
          /\ (matchObj[mid].result.winner # Null) <=> (matchObj[mid].status = "finished")
          /\ (matchObj[mid].result.reason # Null) <=> (matchObj[mid].status = "finished"))
  /\ [][\A mid \in DOMAIN matchObj \cap DOMAIN matchObj' :
          matchObj[mid].status = "finished" => matchObj'[mid].status = "finished"]_vars

\* a session finished on time has taken one more move and is still finished
C13_FinishedTwice ==
  \E mid \in DOMAIN matchObj :
    /\ matchObj[mid].status = "finished"
    /\ matchObj[mid].result.reason = "timeout"
    /\ settles[mid] = 2

Settled(t) ==
  /\ Resumed(t)
  /\ t.kind = "over"
  /\ BagCardinality(tasks') < BagCardinality(tasks)

\* C15: when the settlement of a finished session completes, with a
\* decisive outcome or with a draw, game_over is pushed to every registered
\* connection of its two participants, and to no other.
C15_GameOverPushed ==
  [][\A t \in BagToSet(tasks) :
       Settled(t)
         => LET m == matchObj[t.mid]
                live == SocketsOf(m.players.white) \cup SocketsOf(m.players.black)
            IN /\ \A x \in live :
                    \E e \in emitted' : e.event = "game_over" /\ e.to = x /\ e.mid = t.mid
               /\ \A e \in emitted' : e.event = "game_over" /\ e.to \in live]_vars

\* C16: for a session of two participants without an account, no step of
\* pairing or of settlement changes a wallet or records an entry fee, a
\* refund, winnings or operator earnings.
C16_AnonymousNoStakes ==
  [][\A t \in BagToSet(tasks) :
       (/\ Resumed(t)
        /\ \/ t.kind = "pair" /\ t.p1.dbId = Null /\ t.p2.dbId = Null
           \/ /\ t.kind = "over"
              /\ matchObj[t.mid].whiteDbId = Null
              /\ matchObj[t.mid].blackDbId = Null)
         => /\ wallet' = wallet
            /\ \A r \in inserted' :
                 r.type \notin {"entry_fee", "refund", "winnings", "cut"}]_vars

\* the awaited statement of the suspended handler t threw
Failed(t) ==
  /\ t \in BagToSet(tasks)
  /\ CopiesIn(t, tasks') < CopiesIn(t, tasks)
  /\ failures' = failures + 1

\* C17: when a store statement fails during the pairing of two account
\* holders, either both wallets have been debited or neither has.
C17_NoLoneDebit ==
  [][\A t \in BagToSet(tasks) :
       (Failed(t) /\ t.kind = "pair" /\ t.p1.dbId \in Users /\ t.p2.dbId \in Users)
         => (wallet'[t.p1.dbId] < InitialBalance(t.p1.dbId))
              <=> (wallet'[t.p2.dbId] < InitialBalance(t.p2.dbId))]_vars

\* C18: no finished session stays in the live index once no settlement of
\* it is running any more, whether the settlement succeeded or failed.
C18_FinishedIsDiscarded ==
  \A mid \in matches :
    matchObj[mid].status = "finished"
      => \E t \in BagToSet(tasks) : t.kind = "over" /\ t.mid = mid

\* C19: a connection whose disconnect was processed has no registry entry,
\* and a join_queue of it that resumes afterwards leaves its participant in
\* no queue.
C19_GoneAfterDisconnect ==
  /\ [](\A s \in closed : s \notin DOMAIN players)
  /\ [][\A t \in BagToSet(tasks) :
          (Resumed(t) /\ t.kind = "join" /\ t.sock \in closed)
            => Entries(queues', t.player.playerId) = {}]_vars

\* C20: the disconnect of a participant of an active session finishes the
\* session with the opponent as winner.
C20_DisconnectForfeits ==
  [][\A s \in Sockets, mid \in matches, c \in {"white", "black"} :
       (/\ Disconnect(s)
        /\ s \in DOMAIN players
        /\ matchObj[mid].status = "active"
        /\ matchObj[mid].players[c] = players[s].playerId)
         => /\ mid \in DOMAIN matchObj'
            /\ matchObj'[mid].status = "finished"
            /\ matchObj'[mid].result.winner = Other(c)]_vars

\* C21: when the balance read of a join_queue fails, the participant is
\* not enqueued: the queues stay as they were and no pairing starts.
C21_NoBalanceNoQueue ==
  [][\A t \in BagToSet(tasks) :
       (Failed(t) /\ t.kind = "join")
         => /\ queues' = queues
            /\ \A x \in BagToSet(tasks') : x.kind = "pair" => x \in BagToSet(tasks)]_vars

\* pid resolves to a registered participant when pairing looks at it
Resolves(pid) == \E s \in DOMAIN players' : players'[s].playerId = pid

\* the pairings the step started
Started ==
  {x \in BagToSet(tasks') :
     /\ x.kind = "pair"
     /\ CopiesIn(x, tasks') > (IF tasks = EmptyBag THEN 0 ELSE CopiesIn(x, tasks))}

\* the step pushed a second entry onto the queue of mode (line 726 prints the
\* size right after the push, before pairing looks at the queue)
PushedSecond(mode) ==
  /\ Len(queues[mode]) = 1
  /\ \E d \in Users \cup {Null} : JoinedLine(d, mode, 2) \in logged'

\* C22: when one of the two oldest entries of a queue does not resolve to a
\* registered participant, pairing removes that entry only and keeps the
\* other, and a pairing is started only with two participants that resolve.
\* With a the older entry: if a does not resolve the newer entry alone is
\* left; if a resolves, either a pairing of a with the newer entry starts
\* and both resolve, or a alone is left.
C22_StaleEntryDiscarded ==
  [][\A mode \in Modes :
       PushedSecond(mode)
         => LET a == queues[mode][1]
            IN /\ ~Resolves(a)
                    => /\ \E b \in PlayerIds \ {a} : queues'[mode] = <<b>>
                       /\ Started = {}
               /\ Resolves(a)
                    => \/ queues'[mode] = <<a>> /\ Started = {}
                       \/ /\ queues'[mode] = <<>>
                          /\ Started # {}
               /\ \A x \in Started :
                    /\ x.mode = mode
                    /\ x.p1 \in Range(players')
                    /\ x.p2 \in Range(players')
                    /\ x.p1.playerId = a
                    /\ x.p2.playerId # a]_vars

\* a queue reached two entries and pairing discarded one that did not
\* resolve: one entry is left and no pairing was started
C22_Discarded ==
  \E mode \in Modes, d \in Users \cup {Null} :
    /\ JoinedLine(d, mode, 2) \in logged
    /\ Log("self_match", Null, mode) \notin logged
    /\ Len(queues[mode]) = 1
    /\ tasks = EmptyBag
    /\ created = 0

\* C23: no session has the same persistent-account identity on both sides;
\* when the two oldest entries of a queue share one, the second is removed,
\* the first stays queued and no pairing starts.
C23_NoSelfMatch ==
  /\ [](\A m \in DOMAIN matchObj :
          matchObj[m].whiteDbId # Null => matchObj[m].whiteDbId # matchObj[m].blackDbId)
  /\ [][\A mode \in Modes :
          /\ \A x \in Started : x.p1.dbId # Null => x.p1.dbId # x.p2.dbId
          /\ (PushedSecond(mode) /\ Log("self_match", Null, mode) \in logged')
               => /\ queues'[mode] = <<queues[mode][1]>>
                  /\ Started = {}]_vars

\* the guard has fired: the second entry of an account met twice is gone
\* and the first is still waiting
C23_Guarded ==
  \E mode \in Modes, u \in Users :
    /\ Log("self_match", Null, mode) \in logged
    /\ JoinedLine(u, mode, 2) \in logged
    /\ Len(queues[mode]) = 1
    /\ \E s \in DOMAIN players :
         players[s].playerId = queues[mode][1] /\ players[s].dbId = u

\* the color the session m records for the participant p
ColorIn(m, p) == IF m.players.white = p.playerId THEN "white" ELSE "black"

\* C24: a pairing empties the queue of its two oldest entries; when it
\* completes, the session enters the live index active, with white to move,
\* equal starting budgets and the two participants on opposite sides, and
\* each of the two is sent match_found with the color the session records
\* for it.
C24_PairingResult ==
  [][/\ \A mode \in Modes :
          (PushedSecond(mode) /\ Started # {}) => queues'[mode] = <<>>
     /\ \A t \in BagToSet(tasks) :
          (Resumed(t) /\ t.kind = "pair" /\ t.pc = "insert")
            => LET m == matchObj'[t.mid]
               IN /\ t.mid \notin matches
                  /\ matches' = matches \cup {t.mid}
                  /\ m.status = "active"
                  /\ m.turn = "white"
                  /\ m.clock.whiteMs = StartMs(t.mode)
                  /\ m.clock.blackMs = m.clock.whiteMs
                  /\ {m.players.white, m.players.black} = {t.p1.playerId, t.p2.playerId}
                  /\ m.players.white # m.players.black
                  /\ emitted' = {Msg(p.socketId, "match_found", t.mid, ColorIn(m, p), Null, 0) :
                                   p \in {t.p1, t.p2}}]_vars

\* a pairing has completed: both participants hold a match_found and the
\* one told white is the white of the session
C24_Paired ==
  \E mid \in matches, s1 \in DOMAIN players, s2 \in DOMAIN players :
    /\ Msg(s1, "match_found", mid, "white", Null, 0) \in emitted
    /\ Msg(s2, "match_found", mid, "black", Null, 0) \in emitted
    /\ players[s1].playerId = matchObj[mid].players.white
    /\ players[s2].playerId = matchObj[mid].players.black
    /\ queues[matchObj[mid].gameMode] = <<>>

\* C25: an accepted move after which the oracle reports checkmate finishes
\* the session with the side that moved as winner and reason checkmate; one
\* after which it reports a draw condition finishes it as a draw; one after
\* which it reports neither, and that leaves no budget at zero, leaves an
\* active session active.
C25_MoveOutcome ==
  [][\A mid \in MatchIds :
       Accepted(mid)
         => LET m == matchObj[mid]
                n == matchObj'[mid]
            IN /\ n.chess.flag = "mate"
                    => /\ n.status = "finished"
                       /\ n.result = [winner |-> m.turn, reason |-> "checkmate"]
               /\ n.chess.flag \in {"stale", "draw"}
                    => /\ n.status = "finished"
                       /\ n.result = [winner |-> "draw", reason |-> "draw"]
               /\ (/\ n.chess.flag = "none"
                   /\ n.clock.whiteMs # 0
                   /\ n.clock.blackMs # 0
                   /\ m.status = "active")
                    => n.status = "active" /\ n.result = NoResult]_vars

\* black has delivered checkmate and is recorded as the winner
C25_Checkmated ==
  \E mid \in DOMAIN matchObj :
    /\ matchObj[mid].chess = [plies |-> 2, flag |-> "mate"]
    /\ matchObj[mid].status = "finished"
    /\ matchObj[mid].result = [winner |-> "black", reason |-> "checkmate"]

\* C26: a session with a budget at zero is finished, and a session finished
\* with reason timeout has as winner the side opposite to one whose budget
\* is zero.
C26_ZeroBudget ==
  \A mid \in DOMAIN matchObj :
    LET m == matchObj[mid]
    IN /\ (m.clock.whiteMs = 0 \/ m.clock.blackMs = 0) => m.status = "finished"
       /\ m.result.reason = "timeout"
            => /\ m.status = "finished"
               /\ m.result.winner \in {"white", "black"}
               /\ Budget(m, Other(m.result.winner)) = 0

\* a budget has run out and the other side has won on time
C26_RanOut ==
  \E mid \in DOMAIN matchObj, c \in {"white", "black"} :
    /\ Budget(matchObj[mid], c) = 0
    /\ Budget(matchObj[mid], Other(c)) > 0
    /\ matchObj[mid].status = "finished"
    /\ matchObj[mid].result = [winner |-> Other(c), reason |-> "timeout"]

\* C27: between two steps every mode queue holds at most one entry; a queue
\* that reaches two entries is reduced within the step that pushed the
\* second.
C27_AtMostOneWaiting == \A mode \in DOMAIN queues : Len(queues[mode]) <= 1

\* a second entry was pushed and the step took both for a pairing
C27_Reduced ==
  \E mode \in Modes, d \in Users \cup {Null} :
    /\ JoinedLine(d, mode, 2) \in logged
    /\ queues[mode] = <<>>
    /\ \E t \in BagToSet(tasks) : t.kind = "pair" /\ t.mode = mode

\* C28: no two registry entries hold the same persistent-account identity.
C28_OneEntryPerAccount ==
  \A s1 \in DOMAIN players, s2 \in DOMAIN players :
    (s1 # s2 /\ players[s1].dbId # Null) => players[s1].dbId # players[s2].dbId

\* the participants of the session mid
Sides(mid) == {matchObj[mid].players.white, matchObj[mid].players.black}

\* C29: a participant is a side of at most one session of the live index.
C29_OneSessionEach ==
  \A m1 \in matches, m2 \in matches : m1 # m2 => Sides(m1) \cap Sides(m2) = {}

\* what the wallets have lost since the start: the debits of pairing less
\* the credits of settlement
NetDebited == (InitialBalance("u1") - wallet'["u1"]) + (InitialBalance("u2") - wallet'["u2"])

\* C30: when the one settlement of a session completes, what was debited
\* from the wallets at pairing equals what was credited to them at
\* settlement plus the operator earnings recorded for the match, whichever
\* sides have an account.
C30_MoneyConserved ==
  [][\A t \in BagToSet(tasks) :
       (Settled(t) /\ settles[t.mid] = 1)
         => \/ /\ t.draw
               /\ NetDebited = 0
            \/ /\ ~t.draw
               /\ \E r \in Written("cut") : r.mid = t.mid /\ NetDebited = r.amount]_vars

\* the stake the participant p asked for in its own join_queue, and was
\* balance-checked against (line 691 turns a missing entryFee into 10.00)
OwnStake(p) == IF Requested(p.socketId) = 0 THEN DefaultFee ELSE Requested(p.socketId)

\* the participant whose statement the pairing t is suspended on
Charged(t) == IF t.pc \in {"debit1", "tx1"} THEN t.p1 ELSE t.p2

\* C31: what pairing debits from a participant, the entry fee it records for
\* it, and the stake on the session, are the stake that participant asked
\* for in its own join_queue, also when the two joined with different stakes.
C31_OwnStakeCharged ==
  [][\A t \in BagToSet(tasks) :
       (Resumed(t) /\ t.kind = "pair")
         => /\ (t.pc \in {"debit1", "debit2"} /\ Charged(t).dbId \in Users)
                 => wallet[Charged(t).dbId] - wallet'[Charged(t).dbId] = OwnStake(Charged(t))
            /\ \A r \in Written("entry_fee") : r.amount = OwnStake(Charged(t))
            /\ t.pc = "insert"
                 => \A p \in {t.p1, t.p2} :
                      p.dbId \in Users => matchObj'[t.mid].entryFee = OwnStake(p)]_vars

\* C32: no wallet balance is negative.
C32_NoNegativeBalance == \A u \in DOMAIN wallet : wallet[u] >= 0
====
